---- MODULE Spec2Model ----
(***************************************************************************)
(* The blog pipeline: Importer (blogspot_to_html.py), Post-Processor       *)
(* (clean_blog_posts.py) and Index Builder (generate_blog_index.py).       *)
(*                                                                         *)
(* A Python str is a sequence of symbols.  A symbol is a one-character     *)
(* string, or an atom standing for one piece of markup that the code only  *)
(* ever handles as a whole ("<h1>", "</strong>", ".html", a date as        *)
(* strftime prints it).  A run of indentation is written as its newline.   *)
(***************************************************************************)
EXTENDS Integers, Sequences, FiniteSets, TLC

VARIABLES
    feed,              \* the parsed feed document: the sequence of its entries
    now,               \* the day datetime.now() reads, as far as a run reads it
    pc,                \* Importer position: start, parsed, done, raised
    posts,             \* parse_blogspot_xml's return value
    generated_files,   \* generate_blog_files' first return value
    category_posts,    \* generate_blog_files' second return value
    blog,              \* the posts directory blog/: file name -> content
    blog_in,           \* the posts directory as the stages found it
    blog_html,         \* the top-level index blog.html
    modified,          \* the files the Post-Processor's last run reported
    all_posts,         \* categorize_posts' first return value
    posts_by_category, \* categorize_posts' second return value
    scanned,           \* the files categorize_posts read, in glob order
    written,           \* the feed entries a post file has been written for
    runs               \* completed runs of each stage

vars == <<feed, now, pc, posts, generated_files, category_posts, blog, blog_in,
          blog_html, modified, all_posts, posts_by_category, scanned,
          written, runs>>

----------------------------------------------------------------------------
(* Bounds of the model.                                                    *)

MaxEntries == 2
MaxRuns == 2
MaxFiles == 2
MaxScan == 3
MaxTitleLen == 4
MaxBodyLen == 4

----------------------------------------------------------------------------
(* Characters and str methods.                                             *)

UpperChars == <<"A", "B", "C", "D", "E", "F", "G", "H", "I", "J", "K", "L", "M",
                "N", "O", "P", "Q", "R", "S", "T", "U", "V", "W", "X", "Y", "Z">>
LowerChars == <<"a", "b", "c", "d", "e", "f", "g", "h", "i", "j", "k", "l", "m",
                "n", "o", "p", "q", "r", "s", "t", "u", "v", "w", "x", "y", "z">>
UpperSet == {UpperChars[i] : i \in 1..26}
LowerSet == {LowerChars[i] : i \in 1..26}
DigitSet == {"0", "1", "2", "3", "4", "5", "6", "7", "8", "9"}
SpaceSet == {" ", "\n", "\t"}

ToLower(c) ==
    IF c \in UpperSet THEN LowerChars[CHOOSE i \in 1..26 : UpperChars[i] = c] ELSE c

ToUpper(c) ==
    IF c \in LowerSet THEN UpperChars[CHOOSE i \in 1..26 : LowerChars[i] = c] ELSE c

\* str.lower()
lower(s) == [i \in 1..Len(s) |-> ToLower(s[i])]

\* Is c matched by \w, by \s
IsWord(c) == c \in UpperSet \cup LowerSet \cup DigitSet \cup {"_"}
IsSpace(c) == c \in SpaceSet

\* sub in s
Contains(s, sub) ==
    \E i \in 0..(Len(s) - Len(sub)) : SubSeq(s, i + 1, i + Len(sub)) = sub

\* The first index >= from at which sub starts in s, or 0
Find(s, sub, from) ==
    LET hits == {i \in from..(Len(s) - Len(sub) + 1) : SubSeq(s, i, i + Len(sub) - 1) = sub}
    IN  IF hits = {} THEN 0 ELSE CHOOSE i \in hits : \A j \in hits : i <= j

\* s[n:]
Drop(s, n) == SubSeq(s, n + 1, Len(s))

\* s[:n]
Take(s, n) == SubSeq(s, 1, IF n < Len(s) THEN n ELSE Len(s))

RECURSIVE replace(_, _, _)
\* str.replace(old, new): every non-overlapping occurrence, left to right
replace(s, old, new) ==
    IF old = <<>>
    THEN IF s = <<>> THEN new ELSE new \o <<Head(s)>> \o replace(Tail(s), old, new)
    ELSE LET i == Find(s, old, 1)
         IN  IF i = 0 THEN s
             ELSE Take(s, i - 1) \o new \o replace(Drop(s, i + Len(old) - 1), old, new)

RECURSIVE lstrip(_)
lstrip(s) == IF s # <<>> /\ IsSpace(Head(s)) THEN lstrip(Tail(s)) ELSE s

RECURSIVE rstrip(_)
rstrip(s) == IF s # <<>> /\ IsSpace(s[Len(s)]) THEN rstrip(Take(s, Len(s) - 1)) ELSE s

\* str.strip()
strip(s) == rstrip(lstrip(s))

RECURSIVE join(_, _)
\* sep.join(parts)
join(parts, sep) ==
    IF parts = <<>> THEN <<>>
    ELSE IF Len(parts) = 1 THEN parts[1]
    ELSE parts[1] \o sep \o join(Tail(parts), sep)

RECURSIVE split(_, _)
\* str.split(sep), sep one symbol
split(s, sep) ==
    LET i == Find(s, <<sep>>, 1)
    IN  IF i = 0 THEN <<s>> ELSE <<Take(s, i - 1)>> \o split(Drop(s, i), sep)

RECURSIVE sub_pair(_, _, _, _)
\* re.sub of  open(.*?)close  with DOTALL: leftmost opening symbol, shortest span
\* to a closing symbol, replaced by the group (keep) or by nothing.
sub_pair(s, opens, close, keep) ==
    LET os == {i \in 1..Len(s) : s[i] \in opens}
    IN  IF os = {} THEN s
        ELSE LET i == CHOOSE k \in os : \A m \in os : k <= m
                 j == Find(s, <<close>>, i + 1)
             IN  IF j = 0 THEN s
                 ELSE Take(s, i - 1)
                      \o (IF keep THEN SubSeq(s, i + 1, j - 1) ELSE <<>>)
                      \o sub_pair(Drop(s, j), opens, close, keep)

\* The order list.sort(key, reverse=True) leaves: positions of keys by key
\* descending, equal keys in their original order.
RECURSIVE SortDesc(_, _)
SortDesc(keys, left) ==
    IF left = {} THEN <<>>
    ELSE LET i == CHOOSE k \in left :
                    \A m \in left : keys[m] < keys[k] \/ (keys[m] = keys[k] /\ k <= m)
         IN  <<i>> \o SortDesc(keys, left \ {i})

Range(s) == {s[i] : i \in 1..Len(s)}

----------------------------------------------------------------------------
(* Importer: blogspot_to_html.py                                           *)

FilenameLimit == 100
ImporterPreviewLimit == 200

\* A Python value that is a str or None
Str(s) == [isNone |-> FALSE, s |-> s]
None == [isNone |-> TRUE, s |-> <<>>]

\* An element of an entry as ElementTree gives it: absent (find returns None),
\* present with no text (.text is None), or present with text.
Absent == [present |-> FALSE, text |-> None]
Empty == [present |-> TRUE, text |-> None]
Elem(s) == [present |-> TRUE, text |-> Str(s)]

File(base) == base \o <<".html">>

IsFilenameChar(c) == IsWord(c) \/ IsSpace(c) \/ c = "-"
IsHyphenOrSpace(c) == IsSpace(c) \/ c = "-"

RECURSIVE collapse_hyphens(_)
\* re.sub(r'[-\s]+', '-', filename)
collapse_hyphens(s) ==
    IF s = <<>> THEN <<>>
    ELSE IF IsHyphenOrSpace(Head(s))
    THEN LET rest == {i \in 1..Len(s) : ~IsHyphenOrSpace(s[i])}
             n == IF rest = {} THEN Len(s) + 1 ELSE CHOOSE i \in rest : \A j \in rest : i <= j
         IN  <<"-">> \o collapse_hyphens(Drop(s, n - 1))
    ELSE <<Head(s)>> \o collapse_hyphens(Tail(s))

clean_filename(title) ==
    Take(collapse_hyphens(SelectSeq(lower(title), IsFilenameChar)), FilenameLimit)

ex_ai_ethics_law == <<"a", "i", " ", "e", "t", "h", "i", "c", "s", " ", "&", " ", "l", "a", "w">>
ex_ai_ethics == <<"a", "i", " ", "e", "t", "h", "i", "c", "s">>
ex_law == <<"l", "a", "w">>
excluded_categories == <<ex_ai_ethics_law, ex_ai_ethics, ex_law>>

\* A slip: the loop returns after looking at the first label only
should_exclude_post_first_label(labels) ==
    /\ labels # <<>>
    /\ \E j \in 1..Len(excluded_categories) :
          Contains(lower(labels[1]), excluded_categories[j])

should_exclude_post(labels) ==
    \E i \in 1..Len(labels) : \E j \in 1..Len(excluded_categories) :
        Contains(lower(labels[i]), excluded_categories[j])

k_speech_technology == <<"s", "p", "e", "e", "c", "h", " ", "t", "e", "c", "h", "n", "o", "l", "o", "g", "y">>
k_book_summary == <<"b", "o", "o", "k", " ", "s", "u", "m", "m", "a", "r", "y">>
k_paper_review == <<"p", "a", "p", "e", "r", " ", "r", "e", "v", "i", "e", "w">>
k_aesthetics == <<"a", "e", "s", "t", "h", "e", "t", "i", "c", "s">>
k_algorithm == <<"a", "l", "g", "o", "r", "i", "t", "h", "m">>
k_research == <<"r", "e", "s", "e", "a", "r", "c", "h">>
k_tutorial == <<"t", "u", "t", "o", "r", "i", "a", "l">>
k_data_science == <<"d", "a", "t", "a", " ", "s", "c", "i", "e", "n", "c", "e">>
k_nlp == <<"n", "l", "p">>
k_linguistics == <<"l", "i", "n", "g", "u", "i", "s", "t", "i", "c", "s">>

\* The dict in its insertion order: <<key, value>>
category_mapping ==
    << <<k_speech_technology, "speech-technology">>,
       <<k_book_summary, "book-summaries">>,
       <<k_paper_review, "paper-reviews">>,
       <<k_aesthetics, "aesthetics">>,
       <<k_algorithm, "algorithm">>,
       <<k_research, "research">>,
       <<k_tutorial, "tutorials">>,
       <<k_data_science, "data-science">>,
       <<k_nlp, "nlp">>,
       <<k_linguistics, "linguistics">> >>

\* First label, in label order, that contains a key; for it the first such key
extract_category_from_labels(labels) ==
    LET hit(i) == {j \in 1..Len(category_mapping) :
                      Contains(lower(labels[i]), category_mapping[j][1])}
        ls == {i \in 1..Len(labels) : hit(i) # {}}
    IN  IF ls = {} THEN "general"
        ELSE LET i == CHOOSE k \in ls : \A m \in ls : k <= m
                 j == CHOOSE k \in hit(i) : \A m \in hit(i) : k <= m
             IN  category_mapping[j][2]

\* A datetime: the day, the time within the day, and whether it carries an
\* offset (aware) or not (naive).
DateTime(day, tod, aware) == [day |-> day, tod |-> tod, aware |-> aware]
DateKey(d) == d.day * 10 + d.tod

\* date.strftime("%B %d, %Y"): one atom per day
DisplayDates == <<"January 01, 2024", "January 02, 2024", "January 03, 2024",
                  "January 04, 2024", "January 05, 2024", "January 06, 2024",
                  "January 07, 2024">>
strftime(date) == DisplayDates[date.day]

\* Opening tags matched by <div[^>]*blogger[^>]*> under IGNORECASE
BloggerDivs == {"<div class=blogger-post-footer>", "<DIV ID=Blogger>"}
ImageTags == {"<img src=a.png>", "<figure>"}

\* The f-string template of create_html_post, with its five holes
html_template(title, date_str, content, categories, original_url) ==
    <<"<!DOCTYPE html>", "\n", "<html lang=en>", "\n", "<head>", "\n",
      "<meta>", "\n", "<title>">>
    \o title
    \o <<" - Cheonkam Jeong", "</title>", "\n", "<link>", "\n", "</head>", "\n",
         "<body>", "\n", "<article class=blog-post>", "\n", "<h1>">>
    \o title
    \o <<"</h1>", "\n", "<p class=post-date>">>
    \o date_str
    \o <<"</p>", "\n", "\n">>
    \o content
    \o <<"\n", "\n", "<p class=post-meta>", "\n",
         "<strong>", "Categories:", "</strong>", " ">>
    \o categories
    \o <<"\n", "</p>", "\n", "\n", "<p class=post-meta>", "\n",
         "<small>", "Original post: ", "<a href=">>
    \o original_url
    \o <<" target=_blank>">>
    \o original_url
    \o <<"</a>", "</small>", "\n", "</p>", "\n", "</article>", "\n", "\n",
         "<nav>", "\n", "\n", "<footer>", "\n", "<p>", "&copy; 2025", "</p>",
         "\n", "</footer>", "\n", "</body>", "\n", "</html>", "\n">>

create_html_post(title, date, content, labels, original_url) ==
    html_template(title, <<strftime(date)>>,
                  sub_pair(content, BloggerDivs, "</div>", FALSE),
                  join(labels, <<",", " ">>), original_url)

NonEmpty(term) == term # <<>>
entry_labels(entry) == SelectSeq(entry.categories, NonEmpty)

\* The record built from an entry that passed the filters (lines 145-171)
entry_record(entry, idx, reads, step) ==
    [entry |-> idx,
     title |-> IF entry.title.present THEN entry.title.text
               ELSE Str(<<"U", "n", "t", "i", "t", "l", "e", "d">>),
     date |-> IF entry.published.present
              THEN DateTime(entry.published.day, entry.published.tod,
                            entry.published.kind = "Z")
              ELSE DateTime(now, reads * step, FALSE),
     content |-> IF entry.content.present THEN entry.content.text ELSE Str(<<>>),
     labels |-> entry_labels(entry),
     url |-> IF entry.filename.present /\ ~entry.filename.text.isNone
                /\ entry.filename.text.s # <<>>
             THEN <<"https://cheonkamjeong.blogspot.com">> \o entry.filename.text.s
             ELSE <<>>]

\* A slip: an entry with no status marker is taken as live
parse_entry_absent_status(entry, idx, reads, step) ==
    IF ~entry.type.present \/ entry.type.text # Str(<<"POST">>) THEN [kind |-> "skip"]
    ELSE IF entry.status.present /\ entry.status.text # Str(<<"LIVE">>) THEN [kind |-> "skip"]
    ELSE IF should_exclude_post(entry_labels(entry)) THEN [kind |-> "skip"]
    ELSE IF entry.published.present /\ entry.published.kind = "none"
    THEN [kind |-> "raise"]
    ELSE [kind |-> "post", post |-> entry_record(entry, idx, reads, step)]

\* The body of the loop over entries: what one entry contributes.  reads is
\* the number of datetime.now() calls made so far in this run, step the
\* amount the clock moves between two calls.  A published element without
\* text makes .replace raise.
parse_entry(entry, idx, reads, step) ==
    IF ~entry.type.present \/ entry.type.text # Str(<<"POST">>) THEN [kind |-> "skip"]
    ELSE IF ~entry.status.present \/ entry.status.text # Str(<<"LIVE">>) THEN [kind |-> "skip"]
    ELSE IF should_exclude_post(entry_labels(entry)) THEN [kind |-> "skip"]
    ELSE IF entry.published.present /\ entry.published.kind = "none"
    THEN [kind |-> "raise"]
    ELSE [kind |-> "post", post |-> entry_record(entry, idx, reads, step)]

RECURSIVE parse_entries(_, _, _, _)
\* The loop over entries: whether it raised, the records in feed order, and
\* the number of datetime.now() calls it made
parse_entries(entries, idx, reads, step) ==
    IF idx > Len(entries) THEN [raised |-> FALSE, posts |-> <<>>, reads |-> reads]
    ELSE LET r == parse_entry(entries[idx], idx, reads, step)
         IN  IF r.kind = "raise" THEN [raised |-> TRUE, posts |-> <<>>, reads |-> reads]
             ELSE LET usedNow == r.kind = "post" /\ ~entries[idx].published.present
                      rest == parse_entries(entries, idx + 1,
                                            IF usedNow THEN reads + 1 ELSE reads, step)
                  IN  IF rest.raised THEN rest
                      ELSE [rest EXCEPT !.posts =
                               (IF r.kind = "post" THEN <<r.post>> ELSE <<>>) \o @]

\* posts.sort(key=lambda x: x['date'], reverse=True): comparing an aware with
\* a naive datetime raises TypeError
\* A slip: reverse=True forgotten, oldest first
sort_posts_oldest_first(ps) ==
    IF \E i, j \in 1..Len(ps) : ps[i].date.aware # ps[j].date.aware
    THEN [raised |-> TRUE, posts |-> <<>>]
    ELSE LET order == SortDesc([i \in 1..Len(ps) |-> 0 - DateKey(ps[i].date)], 1..Len(ps))
         IN  [raised |-> FALSE, posts |-> [i \in 1..Len(ps) |-> ps[order[i]]]]

sort_posts(ps) ==
    IF \E i, j \in 1..Len(ps) : ps[i].date.aware # ps[j].date.aware
    THEN [raised |-> TRUE, posts |-> <<>>]
    ELSE LET order == SortDesc([i \in 1..Len(ps) |-> DateKey(ps[i].date)], 1..Len(ps))
         IN  [raised |-> FALSE, posts |-> [i \in 1..Len(ps) |-> ps[order[i]]]]

parse_blogspot_xml(entries, step) ==
    LET r == parse_entries(entries, 1, 0, step)
        sorted == sort_posts(r.posts)
    IN  IF r.raised THEN r
        ELSE [raised |-> sorted.raised, posts |-> sorted.posts, reads |-> r.reads]

EmptyDir == [f \in {} |-> <<>>]
\* A slip: the file opened in mode 'a' instead of 'w'
WriteAppend(dir, name, content) ==
    (name :> (IF name \in DOMAIN dir THEN dir[name] ELSE <<>>) \o content) @@ dir

Write(dir, name, content) == (name :> content) @@ dir

Summary(post, filename) ==
    [title |-> post.title.s, date |-> post.date, filename |-> filename,
     preview |-> IF post.content.isNone THEN <<>> ELSE Take(post.content.s, ImporterPreviewLimit)]

RECURSIVE generate_blog_files(_, _, _, _)
\* The loop over posts, from the directory dir and the two accumulators:
\* clean_filename raises on a title that is None, create_html_post on a
\* content that is None, and what was written before stays written.
generate_blog_files(ps, dir, files, cats) ==
    IF ps = <<>>
    THEN [raised |-> FALSE, blog |-> dir, generated_files |-> files,
          category_posts |-> cats, written |-> {}]
    ELSE LET post == Head(ps)
         IN  IF post.title.isNone \/ post.content.isNone
             THEN [raised |-> TRUE, blog |-> dir, generated_files |-> <<>>,
                   category_posts |-> EmptyDir, written |-> {}]
             ELSE LET filename == File(clean_filename(post.title.s))
                      category == extract_category_from_labels(post.labels)
                      before == IF category \in DOMAIN cats THEN cats[category] ELSE <<>>
                      html_content == create_html_post(post.title.s, post.date,
                                                       post.content.s, post.labels, post.url)
                      rest == generate_blog_files(
                                  Tail(ps),
                                  Write(dir, filename, html_content),
                                  Append(files, filename),
                                  Write(cats, category, Append(before, Summary(post, filename))))
                  IN  [rest EXCEPT !.written = @ \cup {post.entry}]

----------------------------------------------------------------------------
(* Post-Processor: clean_blog_posts.py                                     *)

\* re.search of  open(.*?)close : the leftmost start with a closing symbol
\* after it; without DOTALL the group holds no newline.
re_search(s, open, close, dotall) ==
    LET End(i) == Find(s, <<close>>, i + Len(open))
        starts == {i \in 1..(Len(s) - Len(open) + 1) :
                      /\ SubSeq(s, i, i + Len(open) - 1) = open
                      /\ End(i) # 0
                      /\ dotall \/ \A k \in (i + Len(open))..(End(i) - 1) : s[k] # "\n"}
    IN  IF starts = {} THEN [found |-> FALSE, group |-> <<>>]
        ELSE LET i == CHOOSE k \in starts : \A m \in starts : k <= m
             IN  [found |-> TRUE, group |-> SubSeq(s, i + Len(open), End(i) - 1)]

\* re.sub(r'^\[.*?\]\s*', '', title).strip()
clean_title(title) ==
    LET j == Find(title, <<"]">>, 2)
    IN  IF title # <<>> /\ title[1] = "[" /\ j # 0
           /\ \A k \in 2..(j - 1) : title[k] # "\n"
        THEN strip(lstrip(Drop(title, j)))
        ELSE strip(title)

has_images(content) == \E i \in 1..Len(content) : content[i] \in ImageTags

\* re.sub with count=1: only the leftmost match is replaced
sub_first(s, open, close) ==
    LET i == Find(s, <<open>>, 1)
        j == Find(s, <<close>>, i + 1)
    IN  IF i = 0 \/ j = 0 THEN s
        ELSE Take(s, i - 1) \o SubSeq(s, i + 1, j - 1) \o Drop(s, j)

\* A slip: each re.sub called with count=1
clean_html_formatting_count_1(content) ==
    IF ~has_images(content)
    THEN sub_first(sub_first(sub_first(sub_first(content,
             "<strong>", "</strong>"), "<em>", "</em>"), "<b>", "</b>"), "<i>", "</i>")
    ELSE content

clean_html_formatting(content) ==
    IF ~has_images(content)
    THEN sub_pair(sub_pair(sub_pair(sub_pair(content,
             {"<strong>"}, "</strong>", TRUE), {"<em>"}, "</em>", TRUE),
             {"<b>"}, "</b>", TRUE), {"<i>"}, "</i>", TRUE)
    ELSE content

\* The content process_blog_post leaves in the file, and its return value
process_blog_post(original_content) ==
    LET h1_match == re_search(original_content, <<"<h1>">>, "</h1>", TRUE)
        old_title == strip(h1_match.group)
        new_title == clean_title(old_title)
        retitled == replace(original_content, <<"<h1>">> \o old_title \o <<"</h1>">>,
                            <<"<h1>">> \o new_title \o <<"</h1>">>)
        title_match == re_search(retitled, <<"<title>">>, "</title>", FALSE)
        old_page_title == title_match.group
        new_page_title == replace(old_page_title, old_title, new_title)
        content == IF h1_match.found /\ old_title # new_title
                   THEN IF title_match.found
                        THEN replace(retitled,
                                     <<"<title>">> \o old_page_title \o <<"</title>">>,
                                     <<"<title>">> \o new_page_title \o <<"</title>">>)
                        ELSE retitled
                   ELSE original_content
        cleaned == clean_html_formatting(content)
    IN  [content |-> cleaned, changed |-> cleaned # original_content]

skip_files ==
    {File(<<"p", "a", "p", "e", "r", "-", "r", "e", "v", "i", "e", "w">>),
     File(<<"b", "o", "o", "k", "-", "s", "u", "m", "m", "a", "r", "y">>),
     File(<<"b", "o", "o", "k", "-", "r", "e", "v", "i", "e", "w">>),
     File(<<"s", "p", "e", "e", "c", "h", "-", "t", "e", "c", "h", "n", "o", "l", "o", "g", "y">>),
     File(<<"a", "l", "g", "o", "r", "i", "t", "h", "m">>),
     File(<<"a", "e", "s", "t", "h", "e", "t", "i", "c", "s">>),
     File(<<"n", "l", "p">>),
     File(<<"p", "h", "o", "n", "o", "l", "o", "g", "y">>),
     File(<<"p", "s", "y", "c", "h", "o", "l", "i", "n", "g", "u", "i", "s", "t", "i", "c", "s">>),
     File(<<"g", "r", "a", "d", "u", "a", "t", "e", "-", "r", "e", "s", "e", "a", "r", "c", "h">>),
     File(<<"i", "n", "f", "o", "r", "m", "a", "t", "i", "o", "n", "-", "t", "h", "e", "o", "r", "y">>),
     File(<<"p", "y", "t", "h", "o", "n", "-", "c", "o", "d", "e">>),
     File(<<"n", "l", "p", "-", "c", "o", "d", "e">>),
     File(<<"p", "h", "i", "l", "o", "s", "o", "p", "h", "y">>),
     File(<<"b", "a", "s", "h", "-", "c", "o", "d", "e">>),
     File(<<"c", "t", "d", "s", "i">>),
     File(<<"d", "a", "t", "a">>),
     File(<<"l", "e", "e", "t", "c", "o", "d", "e">>),
     File(<<"m", "a", "c", "-", "o", "s">>),
     File(<<"n", "l", "u">>),
     File(<<"p", "e", "r", "l", "-", "c", "o", "d", "e">>),
     File(<<"p", "h", "o", "n", "e", "t", "i", "c", "s">>)}

\* main() of clean_blog_posts.py: every file of blog/ not in skip_files
clean_main ==
    /\ runs.cleaner < MaxRuns
    /\ blog' = [f \in DOMAIN blog |->
                   IF f \in skip_files THEN blog[f] ELSE process_blog_post(blog[f]).content]
    /\ modified' = {f \in DOMAIN blog \ skip_files : process_blog_post(blog[f]).changed}
    /\ runs' = [runs EXCEPT !.cleaner = @ + 1]
    /\ UNCHANGED <<feed, now, pc, posts, generated_files, category_posts, blog_in,
                   blog_html, all_posts, posts_by_category, scanned, written>>

----------------------------------------------------------------------------
(* Index Builder: generate_blog_index.py                                   *)

IndexPreviewLimit == 200

\* The symbols matched whole by <[^>]+>
TagAtoms ==
    {"<strong>", "</strong>", "<em>", "</em>", "<b>", "</b>", "<i>", "</i>",
     "<h1>", "</h1>", "<p>", "</p>", "<div class=blogger-post-footer>",
     "<DIV ID=Blogger>", "</div>", "<small>", "</small>", "</a>", "<nav>",
     "<footer>", "</footer>", "<p class=post-date>", "<p class=post-meta>"}
    \cup ImageTags
NotTag(c) == c \notin TagAtoms

title_cat_names ==
    << <<"P", "a", "p", "e", "r", " ", "R", "e", "v", "i", "e", "w">>,
       <<"B", "o", "o", "k", " ", "S", "u", "m", "m", "a", "r", "y">>,
       <<"B", "o", "o", "k", " ", "R", "e", "v", "i", "e", "w">>,
       <<"A", "l", "g", "o", "r", "i", "t", "h", "m">>,
       <<"S", "p", "e", "e", "c", "h", " ", "T", "e", "c", "h", "n", "o", "l", "o", "g", "y">>,
       <<"N", "L", "P">>,
       <<"P", "s", "y", "c", "h", "o", "l", "i", "n", "g", "u", "i", "s", "t", "i", "c", "s">> >>

RECURSIVE title_cats(_, _)
\* re.findall(r'\[(Paper Review|...)[^\]]*\]', title, re.IGNORECASE) from
\* position from: the groups as the title spells them
title_cats(title, from) ==
    IF from > Len(title) THEN <<>>
    ELSE LET alts == {a \in 1..Len(title_cat_names) :
                         lower(Take(Drop(title, from), Len(title_cat_names[a])))
                             = lower(title_cat_names[a])}
             a == CHOOSE x \in alts : \A y \in alts : x <= y
             j == Find(title, <<"]">>, from + 1 + Len(title_cat_names[a]))
         IN  IF title[from] = "[" /\ alts # {} /\ j # 0
             THEN <<Take(Drop(title, from), Len(title_cat_names[a]))>>
                  \o title_cats(title, j + 1)
             ELSE title_cats(title, from + 1)

RECURSIVE add_title_cats(_, _)
\* The loop of lines 35-39: a title category is appended unless the list
\* already holds the very same string
add_title_cats(categories, cats) ==
    IF cats = <<>> THEN categories
    ELSE LET cat == Head(cats)
             main_cat == IF "-" \in Range(cat) THEN strip(split(cat, "-")[1]) ELSE cat
         IN  add_title_cats(IF main_cat \in Range(categories) THEN categories
                            ELSE Append(categories, main_cat),
                            Tail(cats))

extract_metadata_from_html(content) ==
    LET title_match == re_search(content, <<"<h1>">>, "</h1>", FALSE)
        title == IF title_match.found THEN title_match.group
                 ELSE <<"U", "n", "t", "i", "t", "l", "e", "d">>
        date_match == re_search(content, <<"<p class=post-date>">>, "</p>", FALSE)
        date_str == IF date_match.found THEN date_match.group ELSE <<>>
        \* <strong>Categories:</strong>\s*(.*?)</p> with DOTALL
        ci == Find(content, <<"<strong>", "Categories:", "</strong>">>, 1)
        cj == Find(content, <<"</p>">>, ci + 3)
        cat_text == lstrip(SubSeq(content, ci + 3, cj - 1))
        declared == IF ci # 0 /\ cj # 0
                    THEN LET parts == split(cat_text, ",")
                         IN  [n \in 1..Len(parts) |-> strip(parts[n])]
                    ELSE <<>>
        categories == IF title # <<>> THEN add_title_cats(declared, title_cats(title, 1))
                      ELSE declared
        \* <h1>.*?</p>\s*(.*?)\s*<p class="post-meta"> with DOTALL
        hi == Find(content, <<"<h1>">>, 1)
        pi == Find(content, <<"</p>">>, hi + 1)
        mi == Find(content, <<"<p class=post-meta>">>, pi + 1)
        preview_html == strip(SubSeq(content, pi + 1, mi - 1))
        text == SelectSeq(preview_html, NotTag)
        preview == IF hi # 0 /\ pi # 0 /\ mi # 0
                   THEN IF Len(text) > IndexPreviewLimit
                        THEN strip(Take(text, IndexPreviewLimit)) \o <<".", ".", ".">>
                        ELSE text
                   ELSE <<>>
    IN  [title |-> title, date |-> date_str, categories |-> categories,
         preview |-> preview]

DatetimeMin == 0

\* datetime.strptime(date_str, "%B %d, %Y"): the day it parses to, where it
\* parses; the day number may be unpadded, and year 0001 is datetime.min.
strptime(date_str) ==
    LET known == {d \in 1..Len(DisplayDates) : date_str = <<DisplayDates[d]>>}
    IN  IF known # {} THEN [ok |-> TRUE, day |-> CHOOSE d \in known : TRUE]
        ELSE IF date_str = <<"January 1, 2024">> THEN [ok |-> TRUE, day |-> 1]
        ELSE IF date_str = <<"January 01, 0001">> THEN [ok |-> TRUE, day |-> DatetimeMin]
        ELSE [ok |-> FALSE, day |-> DatetimeMin]

\* A slip: a date that does not parse sorts as datetime.max
parse_date_newest(date_str) ==
    IF strptime(date_str).ok THEN strptime(date_str).day ELSE Len(DisplayDates) + 1

parse_date(date_str) ==
    IF strptime(date_str).ok THEN strptime(date_str).day ELSE DatetimeMin

\* list.sort(key=lambda x: parse_date(x['date']), reverse=True)
sort_by_date(ps) ==
    LET order == SortDesc([i \in 1..Len(ps) |-> parse_date(ps[i].date)], 1..Len(ps))
    IN  [i \in 1..Len(ps) |-> ps[order[i]]]

index_skip ==
    {File(<<"b", "o", "o", "k", "-", "s", "u", "m", "m", "a", "r", "i", "e", "s">>),
     File(<<"p", "a", "p", "e", "r", "-", "r", "e", "v", "i", "e", "w", "s">>),
     File(<<"s", "p", "e", "e", "c", "h", "-", "t", "e", "c", "h", "n", "o", "l", "o", "g", "y">>)}

\* category.lower().replace(' ', '-')
cat_key(category) == replace(lower(category), <<" ">>, <<"-">>)

RECURSIVE add_to_buckets(_, _, _)
\* The loop of lines 79-83 for one post
add_to_buckets(buckets, categories, post_info) ==
    IF categories = <<>> THEN buckets
    ELSE LET key == cat_key(Head(categories))
             before == IF key \in DOMAIN buckets THEN buckets[key] ELSE <<>>
         IN  add_to_buckets((key :> Append(before, post_info)) @@ buckets,
                            Tail(categories), post_info)

post_info(filename, metadata) ==
    [filename |-> filename, title |-> metadata.title, date |-> metadata.date,
     preview |-> metadata.preview]

\* Lines 67-70: every file is read and its metadata extracted
read_posts(dir) == [f \in DOMAIN dir |-> extract_metadata_from_html(dir[f])]

RECURSIVE scan_posts(_, _, _, _)
\* The loop over the files glob returned, in that order
scan_posts(metadata, order, all, buckets) ==
    IF order = <<>> THEN [all_posts |-> all, posts_by_category |-> buckets]
    ELSE IF Head(order) \in index_skip
    THEN scan_posts(metadata, Tail(order), all, buckets)
    ELSE scan_posts(metadata, Tail(order),
                    Append(all, post_info(Head(order), metadata[Head(order)])),
                    add_to_buckets(buckets, metadata[Head(order)].categories,
                                   post_info(Head(order), metadata[Head(order)])))

sort_buckets(buckets) == [c \in DOMAIN buckets |-> sort_by_date(buckets[c])]

categorize_posts(metadata, order) ==
    LET r == scan_posts(metadata, order, <<>>, EmptyDir)
    IN  [all_posts |-> sort_by_date(r.all_posts),
         posts_by_category |-> sort_buckets(r.posts_by_category)]

RECURSIVE post_blocks(_, _)
\* The <div class="blog-post"> blocks of both page kinds
post_blocks(ps, href) ==
    IF ps = <<>> THEN <<>>
    ELSE <<"\n", "<div class=blog-post>", "\n", "<h2>", href>>
         \o Head(ps).filename \o <<">">> \o Head(ps).title
         \o <<"</a>", "</h2>", "\n", "<p class=post-date>">> \o Head(ps).date
         \o <<"</p>", "\n", "<p>", "\n">> \o Head(ps).preview
         \o <<"\n", "</p>", "\n", "</div>", "\n">>
         \o post_blocks(Tail(ps), href)

page_footer ==
    <<"\n", "<nav>", "\n", "\n", "<footer>", "\n", "<p>", "&copy; 2025", "</p>", "\n",
      "</footer>", "\n", "</body>", "\n", "</html>", "\n">>

generate_blog_index(ps) ==
    <<"<!DOCTYPE html>", "\n", "<html lang=en>", "\n", "<head>", "\n", "<meta>", "\n",
      "<title>", "Blog - Cheonkam Jeong", "</title>", "\n", "<link>", "\n", "</head>",
      "\n", "<body>", "\n", "<h1>", "Blog", "</h1>", "\n", "\n",
      "<p style=margin-bottom>", "\n", "<strong>", "Categories:", "</strong>", "\n",
      "<a href=blog/book-summaries.html>", "Book Summaries", "</a>", " ", "|", "\n",
      "<a href=blog/paper-reviews.html>", "Paper Reviews", "</a>", " ", "|", "\n",
      "<a href=blog/speech-technology.html>", "Speech Technology", "</a>", " ", "|", "\n",
      "<a href=blog/algorithm.html>", "Algorithm", "</a>", " ", "|", "\n",
      "<a href=blog/aesthetics.html>", "Aesthetics", "</a>", " ", "|", "\n",
      "<a href=blog/nlp.html>", "NLP", "</a>", "\n", "</p>", "\n", "\n">>
    \o post_blocks(ps, "<a href=blog/")
    \o page_footer

\* str.title(): a letter is upper-cased after a non-letter, lower-cased after
\* a letter
title_case(s) ==
    [i \in 1..Len(s) |->
        IF i > 1 /\ s[i - 1] \in UpperSet \cup LowerSet THEN ToLower(s[i])
        ELSE ToUpper(s[i])]

generate_category_page(category_name, ps) ==
    LET category_title == title_case(replace(category_name, <<"-">>, <<" ">>))
    IN  <<"<!DOCTYPE html>", "\n", "<html lang=en>", "\n", "<head>", "\n", "<meta>",
          "\n", "<title>">>
        \o category_title
        \o <<" - Cheonkam Jeong", "</title>", "\n", "<link>", "\n", "</head>", "\n",
             "<body>", "\n", "<h1>">>
        \o category_title
        \o <<"</h1>", "\n", "\n", "<p>", "<a href=../blog.html>",
             "Back to all posts", "</a>", "</p>", "\n">>
        \o post_blocks(ps, "<a href=")
        \o page_footer

\* The orders in which glob may return the files
ScanOrders(files) ==
    {order \in [1..Cardinality(files) -> files] :
        \A i, j \in 1..Cardinality(files) : order[i] = order[j] => i = j}

NotSkipped(f) == f \notin index_skip

\* The loop of lines 217-223: one page per bucket, named after its slug
write_category_pages(dir, buckets) ==
    [f \in DOMAIN dir \cup {File(c) : c \in DOMAIN buckets} |->
        IF \E c \in DOMAIN buckets : f = File(c)
        THEN LET c == CHOOSE x \in DOMAIN buckets : f = File(x)
             IN  generate_category_page(c, buckets[c])
        ELSE dir[f]]

\* main() of generate_blog_index.py
index_main ==
    /\ runs.index < MaxRuns
    /\ Cardinality(DOMAIN blog) <= MaxScan
    /\ \E metadata \in {read_posts(blog)}, order \in ScanOrders(DOMAIN blog) :
          \E r \in {categorize_posts(metadata, order)} :
              /\ all_posts' = r.all_posts
              /\ posts_by_category' = r.posts_by_category
              /\ scanned' = SelectSeq(order, NotSkipped)
              /\ blog_html' = generate_blog_index(r.all_posts)
              /\ blog' = write_category_pages(blog, r.posts_by_category)
    /\ runs' = [runs EXCEPT !.index = @ + 1]
    /\ UNCHANGED <<feed, now, pc, posts, generated_files, category_posts, blog_in,
                   modified, written>>

----------------------------------------------------------------------------
(* The feeds the Importer is run on.                                       *)

L_NLP == <<"N", "L", "P">>
L_Outlaws == <<"O", "u", "t", "l", "a", "w", "s">>
L_AI_Ethics == <<"A", "I", " ", "E", "t", "h", "i", "c", "s">>
L_Paper_Review == <<"P", "a", "p", "e", "r", " ", "R", "e", "v", "i", "e", "w">>
T_A_b == <<"A", " ", "b">>
T_Ab_punct == <<"A", ",", " ", " ", "b", "!">>
T_tag == <<"[", "N", "L", "P", "]", " ", "C">>

Published(kind, day, tod) == [present |-> TRUE, kind |-> kind, day |-> day, tod |-> tod]
NoPublished == [present |-> FALSE, kind |-> "none", day |-> 0, tod |-> 0]

BaseEntry ==
    [type |-> Elem(<<"POST">>), status |-> Elem(<<"LIVE">>),
     categories |-> <<L_NLP>>, title |-> Elem(T_A_b),
     published |-> Published("Z", 1, 0), content |-> Elem(<<"x">>),
     filename |-> Elem(<<"/", "p">>)]

Vary(field, values) == {[BaseEntry EXCEPT ![field] = v] : v \in values}

EntryUniverse ==
    {BaseEntry}
    \cup Vary("type", {Elem(<<"PAGE">>), Absent})
    \cup Vary("status", {Elem(<<"DRAFT">>), Absent})
    \cup Vary("categories", {<<>>, <<L_NLP, L_Outlaws>>, <<L_AI_Ethics, L_NLP>>,
                             <<L_Paper_Review, <<>> >>})
    \cup Vary("title", {Absent, Empty, Elem(T_Ab_punct), Elem(T_tag)})
    \cup Vary("published", {NoPublished, Published("none", 0, 0), Published("Z", 2, 0),
                            Published("naive", 1, 0)})
    \cup Vary("content", {Absent, Empty,
                          Elem(<<"<div class=blogger-post-footer>", "y", "</div>", "x",
                                 "<img src=a.png>">>)})
    \cup Vary("filename", {Absent})

RECURSIVE SeqsUpTo(_, _)
\* The sequences over S of length at most n
SeqsUpTo(S, n) ==
    IF n = 0 THEN {<<>>}
    ELSE LET shorter == SeqsUpTo(S, n - 1)
         IN  shorter \cup {Append(s, x) : s \in shorter, x \in S}

Feeds == SeqsUpTo(EntryUniverse, MaxEntries)

FirstNow == 3

InitCommon ==
    /\ now = FirstNow
    /\ pc = "start"
    /\ posts = <<>>
    /\ generated_files = <<>>
    /\ category_posts = EmptyDir
    /\ blog_html = <<>>
    /\ modified = {}
    /\ all_posts = <<>>
    /\ posts_by_category = EmptyDir
    /\ scanned = <<>>
    /\ written = {}
    /\ runs = [importer |-> 0, cleaner |-> 0, index |-> 0]

InitImporter ==
    /\ feed \in Feeds
    /\ blog = EmptyDir
    /\ blog_in = EmptyDir
    /\ InitCommon

\* main() of blogspot_to_html.py up to the return of parse_blogspot_xml
main_parse_blogspot_xml ==
    /\ pc \in {"start", "done", "parse_raised", "generate_raised"}
    /\ runs.importer < MaxRuns
    /\ \E step \in {0, 1} :
          LET r == parse_blogspot_xml(feed, step)
              later == IF r.reads > 0 THEN now + step ELSE now
          IN  /\ later <= Len(DisplayDates)
              /\ now' = later
              /\ posts' = r.posts
              /\ pc' = IF r.raised THEN "parse_raised" ELSE "parsed"
              /\ runs' = IF r.raised THEN [runs EXCEPT !.importer = @ + 1] ELSE runs
    /\ generated_files' = <<>>
    /\ category_posts' = EmptyDir
    /\ UNCHANGED <<feed, blog, blog_in, blog_html, modified, all_posts,
                   posts_by_category, scanned, written>>

\* main() of blogspot_to_html.py from the call of generate_blog_files
main_generate_blog_files ==
    /\ pc = "parsed"
    /\ LET r == generate_blog_files(posts, blog, <<>>, EmptyDir)
       IN  /\ blog' = r.blog
           /\ generated_files' = r.generated_files
           /\ category_posts' = r.category_posts
           /\ written' = written \cup r.written
           /\ pc' = IF r.raised THEN "generate_raised" ELSE "done"
    /\ runs' = [runs EXCEPT !.importer = @ + 1]
    /\ UNCHANGED <<feed, now, posts, blog_in, blog_html, modified, all_posts,
                   posts_by_category, scanned>>

NextImporter == main_parse_blogspot_xml \/ main_generate_blog_files

SpecImporter == InitImporter /\ [][NextImporter]_vars

----------------------------------------------------------------------------
(* The Importer's properties.                                              *)

IsPostLive(e) ==
    /\ e.type.present /\ e.type.text = Str(<<"POST">>)
    /\ e.status.present /\ e.status.text = Str(<<"LIVE">>)

HasExcludedLabel(e) ==
    \E i \in 1..Len(e.categories) :
        \E x \in {<<"a", "i", " ", "e", "t", "h", "i", "c", "s", " ", "&", " ", "l", "a", "w">>,
                  <<"a", "i", " ", "e", "t", "h", "i", "c", "s">>,
                  <<"l", "a", "w">>} :
            Contains(lower(e.categories[i]), x)

Eligible(e) == IsPostLive(e) /\ ~HasExcludedLabel(e)
Records(i) == {k \in 1..Len(posts) : posts[k].entry = i}
ParseReturned == pc \in {"parsed", "done", "generate_raised"}
Raised == pc \in {"parse_raised", "generate_raised"}
Filename(k) == File(clean_filename(posts[k].title.s))
Rendering(k) ==
    create_html_post(posts[k].title.s, posts[k].date, posts[k].content.s,
                     posts[k].labels, posts[k].url)

\* C1: an entry with a label that case-insensitively contains an excluded
\* substring never becomes a post record and never has a file written for
\* it, whatever its other labels and their order.
C1_Exclusion ==
    \A i \in 1..Len(feed) :
        HasExcludedLabel(feed[i]) => Records(i) = {} /\ i \notin written

C1_Witness ==
    /\ pc = "done"
    /\ written # {}
    /\ \E i \in 1..Len(feed) :
          /\ IsPostLive(feed[i])
          /\ HasExcludedLabel(feed[i])
          /\ ~HasExcludedLabel([feed[i] EXCEPT !.categories = <<@[1]>>])

\* C2 as stated: parse_blogspot_xml returns a record for an entry if and only
\* if its type marker is POST and its status marker is LIVE.
C2_Original ==
    ParseReturned =>
        \A i \in 1..Len(feed) : Records(i) # {} <=> IsPostLive(feed[i])

\* C2 amended: parse_blogspot_xml returns exactly one record for an entry
\* whose type marker is POST, whose status marker is LIVE and none of whose
\* labels contains an excluded substring, and no record for any other entry.
C2_Eligibility ==
    /\ ParseReturned =>
          \A i \in 1..Len(feed) :
              Cardinality(Records(i)) = IF Eligible(feed[i]) THEN 1 ELSE 0
    /\ ~ParseReturned => posts = <<>>

C2_Witness ==
    /\ pc = "parsed"
    /\ \E i, j \in 1..Len(feed) :
          /\ Records(i) # {}
          /\ ~IsPostLive(feed[j])
          /\ ~feed[j].status.present

\* C5: a missing or empty title, content, filename hint or timestamp never
\* makes the run raise, and every eligible entry gets its file.
C5_MissingFieldsDefault ==
    (\A i \in 1..Len(feed) : feed[i].published.kind # "naive") =>
        /\ ~Raised
        /\ pc = "done" => \A i \in 1..Len(feed) : Eligible(feed[i]) => i \in written

AllTimestamps ==
    \A i \in 1..Len(feed) : Eligible(feed[i]) => feed[i].published.present

\* C7: on a feed whose eligible entries all have a timestamp, a run after the
\* first leaves the output directory as it was: the same files with the same
\* content.
C7_RerunIdempotent ==
    [][(runs.importer >= 1 /\ AllTimestamps) => blog' = blog]_vars

C7_Witness ==
    /\ pc = "done"
    /\ runs.importer = 2
    /\ AllTimestamps
    /\ Cardinality(DOMAIN blog) < Len(posts)

RECURSIVE TotalLen(_, _)
TotalLen(f, keys) ==
    IF keys = {} THEN 0
    ELSE LET k == CHOOSE x \in keys : TRUE
         IN  Len(f[k]) + TotalLen(f, keys \ {k})

\* C9: after a run, each file holds the rendering of the last record, in the
\* newest-first order, that derives its name: the one with the oldest date,
\* the latest in the feed among equal dates.  There are as many files as
\* distinct derived names, and every record is counted in generated_files
\* and in the category report.
C9_CollisionWriteOrder ==
    pc = "done" =>
        /\ \A k \in 1..Len(posts) :
              LET same == {m \in 1..Len(posts) : Filename(m) = Filename(k)}
                  last == CHOOSE m \in same : \A n \in same : n <= m
              IN  /\ Filename(k) \in DOMAIN blog
                  /\ blog[Filename(k)] = Rendering(last)
                  /\ DateKey(posts[last].date) <= DateKey(posts[k].date)
                  /\ DateKey(posts[last].date) = DateKey(posts[k].date)
                        => posts[k].entry <= posts[last].entry
        /\ Cardinality(DOMAIN blog) = Cardinality({Filename(k) : k \in 1..Len(posts)})
        /\ generated_files = [k \in 1..Len(posts) |-> Filename(k)]
        /\ TotalLen(category_posts, DOMAIN category_posts) = Len(posts)
        /\ \A k \in 1..Len(posts) :
              \E c \in DOMAIN category_posts : \E n \in 1..Len(category_posts[c]) :
                  /\ category_posts[c][n].title = posts[k].title.s
                  /\ category_posts[c][n].date = posts[k].date
                  /\ category_posts[c][n].filename = Filename(k)

C9_Witness ==
    /\ pc = "done"
    /\ \E k, m \in 1..Len(posts) :
          /\ k < m
          /\ Filename(k) = Filename(m)
          /\ Rendering(k) # Rendering(m)
          /\ blog[Filename(k)] = Rendering(m)

----------------------------------------------------------------------------
(* The post files the Post-Processor is run on.                            *)

TitleAlphabet == {"[", "]", "a", " "}
BodyAlphabet == {"<strong>", "</strong>", "<em>", "</em>", "<img src=a.png>"}

\* A post file in the Importer's layout, with any heading and any body
post_file(heading, body) ==
    html_template(heading, <<"January 01, 2024">>, body, L_NLP, <<>>)

CleanerFiles ==
    {post_file(h, b) : h \in SeqsUpTo(TitleAlphabet, MaxTitleLen),
                       b \in {<<"x">>, <<"<img src=a.png>">>}}
    \cup {post_file(h, b) : h \in {<<"a">>, <<"[", "a", "]", " ", "a">>},
                            b \in SeqsUpTo(BodyAlphabet, MaxBodyLen)}
    \cup {post_file(<<"<b>">> \o h \o <<"</b>">>, <<"x">>) :
             h \in SeqsUpTo(TitleAlphabet, MaxTitleLen)}

InitCleaner ==
    /\ feed = <<>>
    /\ blog \in {File(<<"a">>) :> c : c \in CleanerFiles}
            \cup {(File(<<"a">>) :> post_file(h, <<"x">>))
                  @@ (File(<<"n", "l", "p">>) :> post_file(h, <<"x">>)) :
                     h \in {<<"a">>, <<"[", "a", "]", " ", "a">>}}
    /\ blog_in = blog
    /\ InitCommon

NextCleaner == clean_main

SpecCleaner == InitCleaner /\ [][NextCleaner]_vars

----------------------------------------------------------------------------
(* The posts directories the Index Builder is run on.                      *)

index_file(heading, date_text, cats_text) ==
    html_template(heading, date_text, <<"x">>, cats_text, <<>>)

IndexFiles ==
    {index_file(<<"A">>, d, L_NLP) :
        d \in {<<"January 01, 2024">>, <<"January 02, 2024">>, <<"January 01, 0001">>,
               <<"n", "o", "n", "e">>}}
    \cup {index_file(<<"A">>, <<"January 01, 2024">>,
                     <<"N", "L", "P", ",", " ", "n", "l", "p">>),
          index_file(T_tag, <<"January 1, 2024">>, L_NLP)}

IndexNames == <<File(<<"a">>), File(<<"b">>), File(<<"c">>), File(<<"d">>)>>

InitIndex ==
    /\ feed = <<>>
    /\ blog \in {[f \in {IndexNames[i] : i \in 1..Len(cs)} |->
                     cs[CHOOSE i \in 1..Len(cs) : IndexNames[i] = f]] :
                 cs \in SeqsUpTo(IndexFiles, MaxFiles)}
            \cup {(IndexNames[1] :> c)
                  @@ (File(<<"s", "p", "e", "e", "c", "h", "-", "t", "e", "c", "h", "n",
                             "o", "l", "o", "g", "y">>) :> c) : c \in IndexFiles}
    /\ blog_in = blog
    /\ InitCommon

NextIndex == index_main

SpecIndex == InitIndex /\ [][NextIndex]_vars

----------------------------------------------------------------------------
(* The Index Builder's properties.                                         *)

Slugs(content) ==
    {cat_key(c) : c \in Range(extract_metadata_from_html(content).categories)}
Bucket(slug) ==
    IF slug \in DOMAIN posts_by_category THEN posts_by_category[slug] ELSE <<>>
Occurrences(list, f) == Cardinality({n \in 1..Len(list) : list[n].filename = f})

\* C4: after categorize_posts, a scanned post is listed in a category's
\* bucket only if that slug is among the slugs of its extracted categories,
\* and a post that has the slug is listed in the bucket exactly once, also
\* when two of its category strings normalise to the same slug.
C4_BucketMembership ==
    runs.index = 1 =>
        \A n \in 1..Len(scanned) :
            \E slugs \in {Slugs(blog_in[scanned[n]])} :
                \A slug \in slugs \cup DOMAIN posts_by_category :
                    Occurrences(Bucket(slug), scanned[n])
                        = IF slug \in slugs THEN 1 ELSE 0

Listed == {all_posts[k].filename : k \in 1..Len(all_posts)}

\* C6: however often the Index Builder has run on a posts directory, the
\* index lists exactly the post files of that directory: the category pages
\* an earlier run wrote there are not scanned as posts.
C6_IndexListsPostFiles ==
    runs.index >= 1 => Listed = DOMAIN blog_in \ index_skip

Parses(p) == strptime(p.date).ok
SortKey(p) == IF Parses(p) THEN strptime(p.date).day ELSE DatetimeMin
ScanIndex(f) == CHOOSE n \in 1..Len(scanned) : scanned[n] = f
SortedLists == {all_posts} \cup {posts_by_category[c] : c \in DOMAIN posts_by_category}
DateDescending(list) ==
    \A i, j \in 1..Len(list) : i < j => SortKey(list[i]) >= SortKey(list[j])
KeepsScanOrder(list) ==
    \A i, j \in 1..Len(list) :
        (i < j /\ SortKey(list[i]) = SortKey(list[j]))
            => ScanIndex(list[i].filename) <= ScanIndex(list[j].filename)
UnparsableLast(list) ==
    \A i, j \in 1..Len(list) : (Parses(list[i]) /\ ~Parses(list[j])) => i < j
UnparsableAfterLater(list) ==
    \A i, j \in 1..Len(list) :
        (Parses(list[i]) /\ SortKey(list[i]) > DatetimeMin /\ ~Parses(list[j])) => i < j

\* C8 as stated: the flat list and every bucket are in descending date order,
\* every post whose date does not parse comes after every post whose date
\* parses, and posts with equal sort keys keep their scan order.
C8_Original ==
    runs.index >= 1 =>
        \A list \in SortedLists :
            DateDescending(list) /\ UnparsableLast(list) /\ KeepsScanOrder(list)

\* C8: the flat list and every bucket are in descending date order, where a
\* date that does not parse counts as datetime.min: such a post comes after
\* every post whose date parses to a later day than datetime.min, and posts
\* with equal sort keys keep their scan order.
C8_SortFallback ==
    runs.index >= 1 =>
        \A list \in SortedLists :
            DateDescending(list) /\ UnparsableAfterLater(list) /\ KeepsScanOrder(list)

\* A post with an unparsable date was scanned first and is listed after a
\* post with a parsable date
C8_Witness ==
    /\ runs.index >= 1
    /\ Len(all_posts) >= 2
    /\ Parses(all_posts[1]) /\ SortKey(all_posts[1]) > DatetimeMin
    /\ ~Parses(all_posts[2])
    /\ ScanIndex(all_posts[2].filename) < ScanIndex(all_posts[1].filename)

----------------------------------------------------------------------------
(* The three stages on one posts directory.                                *)

PipelineEntries ==
    {BaseEntry}
    \cup Vary("title", {Elem(T_tag)})
    \cup Vary("content", {Elem(<<"x", "<img src=a.png>">>)})

InitPipeline ==
    /\ feed \in SeqsUpTo(PipelineEntries, MaxEntries)
    /\ blog = EmptyDir
    /\ blog_in = EmptyDir
    /\ InitCommon

NextPipeline ==
    \/ main_parse_blogspot_xml
    \/ main_generate_blog_files
    \/ clean_main
    \/ index_main

SpecPipeline == InitPipeline /\ [][NextPipeline]_vars

CategoriesOf(dir, f) == extract_metadata_from_html(dir[f]).categories

\* C3: the Post-Processor leaves the categories the Index Builder reads from
\* a post file the Importer wrote as they were: the first Post-Processor run
\* on the Importer's files changes no file's extracted category list.
C3_CategoriesSurviveCleaning ==
    [][(runs.cleaner = 0 /\ runs'.cleaner = 1 /\ runs.index = 0)
          => \A f \in DOMAIN blog : CategoriesOf(blog', f) = CategoriesOf(blog, f)]_vars

----------------------------------------------------------------------------
(* The Post-Processor's properties.                                        *)

EmphasisPairs ==
    {<<"<strong>", "</strong>">>, <<"<em>", "</em>">>, <<"<b>", "</b>">>, <<"<i>", "</i>">>}
EmphasisTags == {p[1] : p \in EmphasisPairs} \cup {p[2] : p \in EmphasisPairs}

Heading(content) == strip(re_search(content, <<"<h1>">>, "</h1>", TRUE).group)

\* The index of the ] closing a bracketed segment that starts text, or 0
LeadingSegment(text) ==
    LET js == {j \in 2..Len(text) : text[j] = "]"}
        j == IF js = {} THEN 0 ELSE CHOOSE k \in js : \A m \in js : k <= m
    IN  IF text # <<>> /\ text[1] = "[" /\ j # 0 /\ \A k \in 2..(j - 1) : text[k] # "\n"
        THEN j ELSE 0

\* At most one bracketed segment leads the heading
OneLeadingSegment(h) ==
    LeadingSegment(strip(Drop(h, LeadingSegment(h)))) = 0

\* No emphasis element holds an opening tag of its own kind
NoNestedEmphasis(content) ==
    \A p \in EmphasisPairs : \A i \in 1..Len(content) :
        content[i] = p[1] =>
            LET j == Find(content, <<p[2]>>, i + 1)
            IN  \A k \in (i + 1)..(j - 1) : content[k] # p[1]

PlainFile(content) ==
    /\ \A i \in 1..Len(Heading(content)) : Heading(content)[i] \notin EmphasisTags
    /\ OneLeadingSegment(Heading(content))
    /\ NoNestedEmphasis(content)

\* C10 as stated: whatever the file, the second run changes nothing.
C10_Original == runs.cleaner >= 2 => modified = {}

\* C10 amended: on a file whose heading holds no emphasis tag and at most one
\* leading bracketed segment, and in which no emphasis element holds an
\* opening tag of its own kind, every run after the first finds the content
\* unchanged, returns False and does not rewrite the file.
C10_FixedPointAfterOneRun ==
    runs.cleaner >= 2 =>
        \A f \in DOMAIN blog_in : PlainFile(blog_in[f]) => f \notin modified

C10_Witness ==
    /\ runs.cleaner = 2
    /\ \E f \in DOMAIN blog_in :
          /\ f \notin skip_files
          /\ PlainFile(blog_in[f])
          /\ LeadingSegment(Heading(blog_in[f])) # 0
          /\ ~has_images(blog_in[f])
          /\ blog[f] # blog_in[f]
          /\ f \notin modified

====
